---- MODULE Spec2Model ----
(***************************************************************************)
(* nd-zipfile: one ZipFile handle (read or write variant), the mutex that  *)
(* guards its Option<ZipArchive>/Option<ZipWriter> slot, and the ZipExtFile*)
(* objects obtained from it.                                               *)
(*                                                                         *)
(* Option<T> is modelled as a sequence: None == <<>>, Some(v) == <<v>>.    *)
(* The mutex is the boolean `locked`; an ArcMutexGuard is a flag on the    *)
(* object owning it.  Methods run to completion one at a time (they hold   *)
(* the interpreter lock), so one action is one whole method call, except a *)
(* call parked inside Mutex::lock(), which is the state `waiting`.         *)
(***************************************************************************)
EXTENDS Integers, Sequences, FiniteSets, TLC

\* ---------------------------------------------------------------- bounds
MaxCursors == 2    \* ZipExtFile objects alive at once
MaxEntries == 2    \* entries started in one ZipWriter
MaxData == 2       \* bytes written into one ZipWriter

\* ------------------------------------------------------------- constants
ZIP_STORED == 0
ZIP_DEFLATED == 8
ZIP_BZIP2 == 12
ZIP_LZMA == 14

None == <<>>
Some(v) == <<v>>

\* ---------------------------------------------------------------- inputs
\* Option<u8> compress_level is None or Some(level); 99 stands for any unknown
\* compress_type code
Kinds == {"Stored", "Deflated", "Bzip2", "Lzma"}
\* (compression, compresslevel) pairs a write-mode ZipFile is constructed with
ArchiveDefaults ==
    {[kind |-> "Stored", level |-> None], [kind |-> "Deflated", level |-> Some(9)],
     [kind |-> "Deflated", level |-> Some(10)], [kind |-> "Bzip2", level |-> Some(0)],
     [kind |-> "Lzma", level |-> Some(10)]}
\* (compress_type, compress_level) pairs set on a ZipInfo
ZipInfoSettings ==
    {<<ZIP_STORED, None>>, <<ZIP_STORED, Some(10)>>,
     <<ZIP_DEFLATED, None>>, <<ZIP_DEFLATED, Some(0)>>, <<ZIP_DEFLATED, Some(9)>>,
     <<ZIP_DEFLATED, Some(10)>>,
     <<ZIP_BZIP2, Some(0)>>, <<ZIP_BZIP2, Some(1)>>, <<ZIP_BZIP2, Some(9)>>,
     <<ZIP_BZIP2, Some(10)>>,
     <<ZIP_LZMA, Some(10)>>, <<99, None>>}
Passwords == {None, Some("pw"), Some("bad")}

\* the archive a read-mode handle is opened over: a plain and an encrypted entry
ReadArchive ==
    << [name |-> "a", encrypted |-> FALSE, password |-> "", data |-> <<1, 2>>],
       [name |-> "s", encrypted |-> TRUE, password |-> "pw", data |-> <<3>>] >>

\* the `name` argument of open(): a str, a ZipInfo or an object of another type
StrName(n) ==
    [ty |-> "str", filename |-> n, compress_type |-> ZIP_STORED, compress_level |-> None]
ZipInfoName(n, t, l) ==
    [ty |-> "ZipInfo", filename |-> n, compress_type |-> t, compress_level |-> l]
OtherName ==
    [ty |-> "other", filename |-> "", compress_type |-> ZIP_STORED, compress_level |-> None]
\* the (mode, name, pwd) triples open() is called with on a read-mode handle
ReadOpenArgs ==
    {[mode |-> "r", name |-> StrName(n), pwd |-> p] : n \in {"a", "s", "zz"}, p \in Passwords}
        \cup {[mode |-> "r", name |-> OtherName, pwd |-> None],
              [mode |-> "w", name |-> StrName("a"), pwd |-> None],
              [mode |-> "a", name |-> StrName("a"), pwd |-> None]}
\* and on a write-mode handle
WriteOpenArgs ==
    {[mode |-> "w", name |-> ZipInfoName("b", z[1], z[2]), pwd |-> None] : z \in ZipInfoSettings}
        \cup {[mode |-> "w", name |-> StrName("a"), pwd |-> None],
              [mode |-> "w", name |-> OtherName, pwd |-> None],
              [mode |-> "w", name |-> StrName("a"), pwd |-> Some("pw")],
              [mode |-> "r", name |-> StrName("a"), pwd |-> None],
              [mode |-> "a", name |-> StrName("a"), pwd |-> None]}
\* what the codec's calls do: all succeed, the metadata peek fails, the stream call fails
\* (the write side makes one codec call, start_file)
ReadCodecOutcomes == {"ok", "raw_err", "err"}
WriteCodecOutcomes == {"ok", "err"}

VARIABLES
    variant,            \* ZipFileInner: "Read" or "Write"
    file,               \* the Option slot behind the mutex: entries of the archive/writer
    locked,             \* the mutex is held
    compression_kind,   \* WriteZipFile.compression_kind
    compression_level,  \* WriteZipFile.compression_level
    disk,               \* what ZipWriter::finish left in the file: None until finalized
    ext,                \* the ZipExtFile objects
    waiting,            \* a call is parked in Mutex::lock()
    last,               \* the last call and what it returned
    journal             \* the caller's record of the entries it opened and the chunks it wrote

vars ==
    <<variant, file, locked, compression_kind, compression_level, disk, ext, waiting, last,
      journal>>

CursorIds == 1..MaxCursors

\* no ZipExtFile object
Absent == [kind |-> "absent", inner |-> FALSE, closed |-> FALSE, entry |-> 0, pos |-> 0]

\* the object owns an ArcMutexGuard: ReadZipExtFile.inner is Some, or it is a WriteZipExtFile
HoldsGuard(x) == x.kind # "absent" /\ x.inner

NoCall ==
    [op |-> "new", res |-> "Ok", ext |-> 0, again |-> FALSE, args |-> None,
     data |-> <<>>, names |-> <<>>, opts |-> None, dropped |-> <<>>]

Call(op, res, c, again) ==
    [NoCall EXCEPT !.op = op, !.res = res, !.ext = c, !.again = again]

\* the caller's journal: on says whether one is kept, ents are the entries the caller
\* opened with the chunks it wrote to each, of is the entry each cursor was opened for,
\* clean is FALSE once a write() failed
NoJournal ==
    [on |-> FALSE, ents |-> <<>>, of |-> [c \in CursorIds |-> 0], clean |-> TRUE]

\* open(filename, "w") returned the cursor c
journal_open(c, filename) ==
    IF ~journal.on THEN journal
    ELSE [journal EXCEPT !.ents = Append(@, [name |-> filename, data |-> <<>>]),
                         !.of[c] = Len(journal.ents) + 1]

\* write(buffer) through the cursor c returned, with Ok or with an error
journal_write(c, buffer, ok) ==
    IF ~journal.on THEN journal
    ELSE IF ok /\ journal.of[c] # 0
    THEN [journal EXCEPT !.ents[journal.of[c]].data = @ \o buffer]
    ELSE [journal EXCEPT !.clean = FALSE]

\* the cursor c is gone
journal_drop(c) ==
    IF ~journal.on THEN journal ELSE [journal EXCEPT !.of[c] = 0]

\* ----------------------------------------------------- CompressionKind
CompressionKind_try_from(value) ==
    CASE value = ZIP_STORED -> "Stored"
      [] value = ZIP_DEFLATED -> "Deflated"
      [] value = ZIP_BZIP2 -> "Bzip2"
      [] value = ZIP_LZMA -> "Lzma"
      [] OTHER -> "Err"

u8_from(kind) ==
    CASE kind = "Stored" -> ZIP_STORED
      [] kind = "Deflated" -> ZIP_DEFLATED
      [] kind = "Bzip2" -> ZIP_BZIP2
      [] kind = "Lzma" -> ZIP_LZMA

\* ------------------------------------------------------------- the mutex
\* Mutex::try_lock (archive close, namelist): succeeds iff the mutex is free
try_lock(m) == ~m

try_lock_arc_always(m) == TRUE
\* Mutex::try_lock_arc (entry open): succeeds iff the mutex is free
try_lock_arc(m) == ~m

drop_guard_leak(m) == m
\* dropping a MutexGuard/ArcMutexGuard unlocks the mutex
drop_guard(m) == FALSE

Init ==
    /\ variant \in {"Read", "Write"}
    /\ file = IF variant = "Read" THEN Some(ReadArchive) ELSE Some(<<>>)
    /\ locked = FALSE
    /\ \E d \in (IF variant = "Write" THEN ArchiveDefaults
                 ELSE {[kind |-> "Stored", level |-> None]}) :
           /\ compression_kind = d.kind
           /\ compression_level = d.level
    /\ disk = None
    /\ ext = [c \in CursorIds |-> Absent]
    /\ waiting = FALSE
    /\ last = NoCall
    /\ journal = NoJournal

\* the id a new ZipExtFile object gets: the lowest one not in use, 0 when all are
NewCursor ==
    IF \E c \in CursorIds : ext[c].kind = "absent"
    THEN CHOOSE c \in CursorIds :
             ext[c].kind = "absent" /\ \A d \in CursorIds : ext[d].kind = "absent" => c <= d
    ELSE 0

\* results open() returns before it touches the mutex, or without having got it
PreLockResults == {"Busy", "UnsupportedMode", "UnsupportedName", "BadMode"}

\* ------------------------------------------------------- ReadZipFile
\* ZipArchive::index_for_name: the index of the entry called n, 0 for None
index_for_name(entries, n) ==
    IF \E i \in DOMAIN entries : entries[i].name = n
    THEN CHOOSE i \in DOMAIN entries :
             entries[i].name = n /\ \A j \in DOMAIN entries : entries[j].name = n => j <= i
    ELSE 0

\* ZipArchive::by_index(index): the decode stream, or the codec's error
by_index(codec) == IF codec = "err" THEN "CodecError" ELSE "Ok"

by_index_decrypt_any_password(entry, password, codec) == by_index(codec)
\* ZipArchive::by_index_decrypt(index, password)
by_index_decrypt(entry, password, codec) ==
    IF password # entry.password THEN "DecryptionFailed" ELSE by_index(codec)

\* the file_builder closure of ReadZipFile::open, run with the guard held
file_builder(slot, name, pwd, codec) ==
    IF slot = None THEN "AlreadyClosed"
    ELSE LET index == index_for_name(slot[1], name) IN
         IF index = 0 THEN "EntryNotFound"
         ELSE IF codec = "raw_err" THEN "CodecError"
         ELSE IF slot[1][index].encrypted
              THEN IF pwd = None THEN "PasswordRequired"
                   ELSE by_index_decrypt(slot[1][index], pwd[1], codec)
              ELSE by_index(codec)

drop_inner_lock_first == <<"lock", "file">>
\* dropping a ReadZipExtFileInner: file, which borrows lock, is dropped first and the
\* guard it borrows from after it
drop_inner == <<"file", "lock">>

\* try_build when file_builder returned an error: no file was built, the guard that was
\* moved into the builder is dropped
drop_failed_build == <<"lock">>

\* what ReadZipFile::open(name, pwd) returns in the current state
ReadZipFile_open_res(name, pwd, codec) ==
    IF ~try_lock_arc(locked) THEN "Busy" ELSE file_builder(file, name, pwd, codec)

\* ReadZipFile::open
ReadZipFile_open(a, codec) ==
    LET res == ReadZipFile_open_res(a.name.filename, a.pwd, codec)
        c == NewCursor
    IN  /\ res = "Ok" => c # 0
        /\ locked' = IF res = "Busy" THEN locked
                     ELSE IF res = "Ok" THEN TRUE
                     ELSE drop_guard(TRUE)
        /\ ext' = IF res = "Ok"
                  THEN [ext EXCEPT ![c] =
                           [kind |-> "Read", inner |-> TRUE, closed |-> FALSE,
                            entry |-> index_for_name(file[1], a.name.filename), pos |-> 0]]
                  ELSE ext
        /\ last' = [Call("open", res, IF res = "Ok" THEN c ELSE 0, FALSE)
                        EXCEPT !.args = Some(a),
                               !.dropped = IF res \in {"Busy", "Ok"} THEN <<>>
                                           ELSE drop_failed_build]
        /\ UNCHANGED <<variant, file, compression_kind, compression_level, disk, waiting, journal>>

\* ReadZipFile::close
ReadZipFile_close_without_try_lock ==
    /\ file' = None
    /\ locked' = locked
    /\ last' = Call("close", "Ok", 0, file = None)
    /\ UNCHANGED <<variant, compression_kind, compression_level, disk, ext, waiting, journal>>
ReadZipFile_close ==
    LET res == IF try_lock(locked) THEN "Ok" ELSE "Busy" IN
        /\ file' = IF res = "Ok" THEN None ELSE file
        /\ locked' = IF res = "Ok" THEN drop_guard(TRUE) ELSE locked
        /\ last' = Call("close", res, 0, file = None)
        /\ UNCHANGED <<variant, compression_kind, compression_level, disk, ext, waiting, journal>>

\* ZipArchive::file_names
file_names(entries) == [i \in DOMAIN entries |-> entries[i].name]

\* ReadZipFile::namelist
ReadZipFile_namelist ==
    LET res == IF ~try_lock(locked) THEN "Busy"
               ELSE IF file = None THEN "AlreadyClosed"
               ELSE "Ok"
    IN  /\ locked' = IF res = "Busy" THEN locked ELSE drop_guard(TRUE)
        /\ last' = [Call("namelist", res, 0, FALSE)
                        EXCEPT !.names = IF res = "Ok" THEN file_names(file[1]) ELSE <<>>]
        /\ UNCHANGED <<variant, file, compression_kind, compression_level, disk, ext, waiting,
                    journal>>

\* ------------------------------------------------------ WriteZipFile
\* ZipInfo::new(filename)
ZipInfo_new(filename) ==
    [filename |-> filename, compress_type |-> ZIP_STORED, compress_level |-> None]

zip_info_fills_unset_level(name) ==
    IF name.ty = "str"
    THEN [ZipInfo_new(name.filename) EXCEPT !.compress_type = u8_from(compression_kind),
                                            !.compress_level = compression_level]
    ELSE [filename |-> name.filename, compress_type |-> name.compress_type,
          compress_level |-> IF name.compress_level = None THEN compression_level
                             ELSE name.compress_level]
\* the zip_info WriteZipFile::open works with, for a str or a ZipInfo argument
zip_info(name) ==
    IF name.ty = "str"
    THEN [ZipInfo_new(name.filename) EXCEPT !.compress_type = u8_from(compression_kind),
                                            !.compress_level = compression_level]
    ELSE [filename |-> name.filename, compress_type |-> name.compress_type,
          compress_level |-> name.compress_level]

deflated_level_ok_from_one(level) == level \in 1..9
\* (0..=9).contains(&compression_level)
deflated_level_ok(level) == level \in 0..9

bzip2_level_ok_from_zero(level) == level \in 0..9
\* (1..=9).contains(&compression_level)
bzip2_level_ok(level) == level \in 1..9

\* the match on compression_kind: the SimpleFileOptions built, or the level error
file_options(kind, compress_level) ==
    CASE kind = "Stored" -> [res |-> "Ok", method |-> "Stored", level |-> None]
      [] kind = "Deflated" ->
            IF compress_level # None /\ ~deflated_level_ok(compress_level[1])
            THEN [res |-> "InvalidCompressionLevel", method |-> "Deflated", level |-> None]
            ELSE [res |-> "Ok", method |-> "Deflated", level |-> compress_level]
      [] kind = "Bzip2" ->
            IF compress_level # None /\ ~bzip2_level_ok(compress_level[1])
            THEN [res |-> "InvalidCompressionLevel", method |-> "Bzip2", level |-> None]
            ELSE [res |-> "Ok", method |-> "Bzip2", level |-> compress_level]
      [] kind = "Lzma" -> [res |-> "Ok", method |-> "Lzma", level |-> None]

\* ZipWriter::start_file: registers a new, empty entry, or fails with the codec's error
start_file(entries, filename) ==
    Append(entries, [name |-> filename, encrypted |-> FALSE, password |-> "", data |-> <<>>])

write_open_body_late_check(slot, name, codec) ==
    IF name.ty = "other" THEN "BadName"
    ELSE IF slot = None THEN "AlreadyClosed"
    ELSE IF CompressionKind_try_from(zip_info(name).compress_type) = "Err"
         THEN "UnknownCompression"
    ELSE IF file_options(CompressionKind_try_from(zip_info(name).compress_type),
                         zip_info(name).compress_level).res # "Ok"
         THEN "InvalidCompressionLevel"
    ELSE IF codec # "ok" THEN "CodecError"
    ELSE "Ok"
\* the body of WriteZipFile::open after the guard was taken
write_open_body(slot, name, codec) ==
    IF slot = None THEN "AlreadyClosed"
    ELSE IF name.ty = "other" THEN "BadName"
    ELSE LET kind == CompressionKind_try_from(zip_info(name).compress_type) IN
         IF kind = "Err" THEN "UnknownCompression"
         ELSE IF file_options(kind, zip_info(name).compress_level).res # "Ok"
              THEN file_options(kind, zip_info(name).compress_level).res
         ELSE IF codec # "ok" THEN "CodecError"
         ELSE "Ok"

WriteZipFile_open_res_nolock(name, codec) == write_open_body(file, name, codec)
\* what WriteZipFile::open(name) returns in the current state
WriteZipFile_open_res(name, codec) ==
    IF ~try_lock_arc(locked) THEN "Busy" ELSE write_open_body(file, name, codec)

\* WriteZipFile::open
WriteZipFile_open(a, codec) ==
    LET res == WriteZipFile_open_res(a.name, codec)
        c == NewCursor
        zi == zip_info(a.name)
    IN  /\ res = "Ok" => (c # 0 /\ Len(file[1]) < MaxEntries)
        /\ locked' = IF res = "Busy" THEN locked
                     ELSE IF res = "Ok" THEN TRUE
                     ELSE drop_guard(TRUE)
        /\ file' = IF res = "Ok" THEN Some(start_file(file[1], zi.filename)) ELSE file
        /\ ext' = IF res = "Ok"
                  THEN [ext EXCEPT ![c] =
                           [kind |-> "Write", inner |-> TRUE, closed |-> FALSE,
                            entry |-> 0, pos |-> 0]]
                  ELSE ext
        /\ last' = [Call("open", res, IF res = "Ok" THEN c ELSE 0, FALSE)
                        EXCEPT !.args = Some(a),
                               !.opts = IF res \in {"Ok", "CodecError"}
                                        THEN LET o == file_options(
                                                     CompressionKind_try_from(zi.compress_type),
                                                     zi.compress_level)
                                             IN  Some([method |-> o.method, level |-> o.level])
                                        ELSE None]
        /\ journal' = IF res = "Ok" THEN journal_open(c, zi.filename) ELSE journal
        /\ UNCHANGED <<variant, compression_kind, compression_level, disk, waiting>>

WriteZipFile_close_keep_on_error(fin) ==
    IF locked
    THEN /\ waiting' = TRUE
         /\ last' = Call("close", "Blocked", 0, FALSE)
         /\ UNCHANGED <<variant, file, locked, compression_kind, compression_level, disk, ext,
                    journal>>
    ELSE LET res == IF file = None THEN "Ok"
                    ELSE IF fin = "finish_err" THEN "CodecError"
                    ELSE IF fin = "flush_err" THEN "IoError"
                    ELSE "Ok"
         IN  /\ file' = IF res = "Ok" THEN None ELSE file
             /\ disk' = IF file # None /\ res = "Ok" THEN Some(file[1]) ELSE disk
             /\ locked' = drop_guard(TRUE)
             /\ last' = Call("close", res, 0, file = None)
             /\ UNCHANGED <<variant, compression_kind, compression_level, ext, waiting, journal>>
\* WriteZipFile::close.  Mutex::lock() parks the call while a guard is out; the slot
\* is taken before finish() and flush() run, so it is empty whatever they return.
WriteZipFile_close(fin) ==
    IF locked
    THEN /\ waiting' = TRUE
         /\ last' = Call("close", "Blocked", 0, FALSE)
         /\ UNCHANGED <<variant, file, locked, compression_kind, compression_level, disk, ext,
                    journal>>
    ELSE LET res == IF file = None THEN "Ok"
                    ELSE IF fin = "finish_err" THEN "CodecError"
                    ELSE IF fin = "flush_err" THEN "IoError"
                    ELSE "Ok"
         IN  /\ file' = None
             /\ disk' = IF file # None /\ res = "Ok" THEN Some(file[1]) ELSE disk
             /\ locked' = drop_guard(TRUE)
             /\ last' = Call("close", res, 0, file = None)
             /\ UNCHANGED <<variant, compression_kind, compression_level, ext, waiting, journal>>

\* ------------------------------------------------------------ ZipFile
\* an open() that lib.rs turns down before it reaches the variant's own open
Reject(a, res) ==
    /\ last' = [Call("open", res, 0, FALSE) EXCEPT !.args = Some(a)]
    /\ UNCHANGED <<variant, file, locked, compression_kind, compression_level, disk, ext,
                   waiting, journal>>

\* what ZipFile::open(name, mode, pwd) returns in the current state
ZipFile_open_res(a, codec) ==
    CASE variant = "Read" /\ a.mode = "r" ->
            IF a.name.ty = "str"
            THEN ReadZipFile_open_res(a.name.filename, a.pwd, codec)
            ELSE "UnsupportedName"
      [] variant = "Read" /\ a.mode = "w" -> "UnsupportedMode"
      [] variant = "Write" /\ a.mode = "r" -> "UnsupportedMode"
      [] variant = "Write" /\ a.mode = "w" ->
            IF a.pwd # None THEN "UnsupportedMode" ELSE WriteZipFile_open_res(a.name, codec)
      [] OTHER -> "BadMode"

ZipFile_open_ignores_pwd(a, codec) ==
    /\ ~waiting
    /\ IF variant = "Read" /\ a.mode = "r" /\ a.name.ty = "str"
       THEN ReadZipFile_open(a, codec)
       ELSE IF variant = "Write" /\ a.mode = "w"
       THEN WriteZipFile_open(a, codec)
       ELSE Reject(a, ZipFile_open_res(a, codec))
\* ZipFile::open
ZipFile_open(a, codec) ==
    /\ ~waiting
    /\ IF variant = "Read" /\ a.mode = "r" /\ a.name.ty = "str"
       THEN ReadZipFile_open(a, codec)
       ELSE IF variant = "Write" /\ a.mode = "w" /\ a.pwd = None
       THEN WriteZipFile_open(a, codec)
       ELSE Reject(a, ZipFile_open_res(a, codec))

\* ZipFile::close (and __exit__, which only calls it)
ZipFile_close(fin) ==
    /\ ~waiting
    /\ IF variant = "Read" THEN ReadZipFile_close ELSE WriteZipFile_close(fin)

\* ZipFile::namelist
ZipFile_namelist ==
    /\ ~waiting
    /\ IF variant = "Read"
       THEN ReadZipFile_namelist
       ELSE /\ last' = Call("namelist", "UnsupportedMode", 0, FALSE)
            /\ UNCHANGED <<variant, file, locked, compression_kind, compression_level, disk,
                           ext, waiting, journal>>

\* --------------------------------------------------------- ZipExtFile
rest_from_start(entry, pos) == entry.data
\* the bytes of the selected entry from position pos on
rest(entry, pos) == SubSeq(entry.data, pos + 1, Len(entry.data))

\* ReadZipExtFile::read: read_to_end drains the entry; a failing stream stops anywhere
ReadZipExtFile_read(c, io) ==
    IF ~ext[c].inner
    THEN /\ last' = Call("read", "AlreadyClosed", c, ext[c].closed)
         /\ UNCHANGED <<variant, file, locked, compression_kind, compression_level, disk, ext,
                        waiting, journal>>
    ELSE LET e == file[1][ext[c].entry] IN
         \E stop \in ext[c].pos..Len(e.data) :
             /\ io = "ok" => stop = Len(e.data)
             /\ ext' = [ext EXCEPT ![c].pos = stop]
             /\ last' = [Call("read", IF io = "ok" THEN "Ok" ELSE "IoError", c, ext[c].closed)
                             EXCEPT !.data = IF io = "ok" THEN rest(e, ext[c].pos) ELSE <<>>]
             /\ UNCHANGED <<variant, file, locked, compression_kind, compression_level, disk,
                            waiting, journal>>

write_all_overwrite(entries, buffer) ==
    [entries EXCEPT ![Len(entries)].data = buffer]
\* ZipWriter::write_all: appends to the entry started last; a failing write may be partial
write_all(entries, buffer) ==
    [entries EXCEPT ![Len(entries)].data = @ \o buffer]

\* the bytes held by the writer
Written(entries) ==
    LET RECURSIVE sum(_)
        sum(i) == IF i = 0 THEN 0 ELSE Len(entries[i].data) + sum(i - 1)
    IN  sum(Len(entries))

\* the buffers write() is called with: the caller writes the bytes 1, 2, 3, ... in
\* chunks of one or two bytes
Chunks ==
    IF file = None THEN {<<1>>}
    ELSE {<<Written(file[1]) + 1>>, <<Written(file[1]) + 1, Written(file[1]) + 2>>}

\* WriteZipExtFile::write
WriteZipExtFile_write(c, buffer, io) ==
    IF file = None
    THEN /\ last' = Call("write", "AlreadyClosed", c, ext[c].closed)
         /\ UNCHANGED <<variant, file, locked, compression_kind, compression_level, disk, ext,
                        waiting, journal>>
    ELSE /\ Written(file[1]) + Len(buffer) <= MaxData
         /\ \E n \in 0..Len(buffer) :
                /\ io = "ok" => n = Len(buffer)
                /\ file' = Some(write_all(file[1], SubSeq(buffer, 1, n)))
         /\ last' = Call("write", IF io = "ok" THEN "Ok" ELSE "IoError", c, ext[c].closed)
         /\ journal' = journal_write(c, buffer, io = "ok")
         /\ UNCHANGED <<variant, locked, compression_kind, compression_level, disk, ext,
                        waiting>>

\* ZipExtFile::read
ZipExtFile_read(c, io) ==
    /\ ~waiting
    /\ ext[c].kind # "absent"
    /\ IF ext[c].kind = "Read"
       THEN ReadZipExtFile_read(c, io)
       ELSE /\ last' = Call("read", "UnsupportedMode", c, ext[c].closed)
            /\ UNCHANGED <<variant, file, locked, compression_kind, compression_level, disk,
                           ext, waiting, journal>>

\* ZipExtFile::write
ZipExtFile_write(c, buffer, io) ==
    /\ ~waiting
    /\ ext[c].kind # "absent"
    /\ IF ext[c].kind = "Write"
       THEN WriteZipExtFile_write(c, buffer, io)
       ELSE /\ last' = Call("write", "UnsupportedMode", c, ext[c].closed)
            /\ UNCHANGED <<variant, file, locked, compression_kind, compression_level, disk,
                           ext, waiting, journal>>

ReadZipExtFile_close_always_unlock(c) ==
    /\ ext' = [ext EXCEPT ![c].inner = FALSE, ![c].closed = TRUE]
    /\ locked' = drop_guard(locked)
\* ReadZipExtFile::close: takes inner and drops it, the view first and the guard after
ReadZipExtFile_close(c) ==
    /\ ext' = [ext EXCEPT ![c].inner = FALSE, ![c].closed = TRUE]
    /\ locked' = IF ext[c].inner THEN drop_guard(locked) ELSE locked

\* WriteZipExtFile::close: an empty body, the guard stays in the object
WriteZipExtFile_close(c) ==
    /\ ext' = [ext EXCEPT ![c].closed = TRUE]
    /\ locked' = locked

\* ZipExtFile::close (and __exit__, which only calls it)
ZipExtFile_close(c) ==
    /\ ~waiting
    /\ ext[c].kind # "absent"
    /\ IF ext[c].kind = "Read" THEN ReadZipExtFile_close(c) ELSE WriteZipExtFile_close(c)
    /\ last' = [Call("ext_close", "Ok", c, ext[c].closed)
                    EXCEPT !.dropped = IF ext[c].kind = "Read" /\ ext[c].inner
                                       THEN drop_inner ELSE <<>>]
    /\ UNCHANGED <<variant, file, compression_kind, compression_level, disk, waiting, journal>>

\* the ZipExtFile object is deallocated: its fields are dropped, a guard among them
ZipExtFile_drop(c) ==
    /\ ~waiting
    /\ ext[c].kind # "absent"
    /\ ext' = [ext EXCEPT ![c] = Absent]
    /\ locked' = IF HoldsGuard(ext[c]) THEN drop_guard(locked) ELSE locked
    /\ last' = [Call("drop", "Ok", c, ext[c].closed)
                    EXCEPT !.dropped = IF ext[c].kind = "Read" /\ ext[c].inner
                                       THEN drop_inner ELSE <<>>]
    /\ journal' = journal_drop(c)
    /\ UNCHANGED <<variant, file, compression_kind, compression_level, disk, waiting>>

Next ==
    \/ \E a \in ReadOpenArgs, codec \in ReadCodecOutcomes :
           variant = "Read" /\ ZipFile_open(a, codec)
    \/ \E a \in WriteOpenArgs, codec \in WriteCodecOutcomes :
           variant = "Write" /\ ZipFile_open(a, codec)
    \/ \E fin \in {"ok", "finish_err", "flush_err"} : ZipFile_close(fin)
    \/ ZipFile_namelist
    \/ \E c \in CursorIds, io \in {"ok", "err"} : ZipExtFile_read(c, io)
    \/ \E c \in CursorIds, buffer \in Chunks, io \in {"ok", "err"} : ZipExtFile_write(c, buffer, io)
    \/ \E c \in CursorIds : ZipExtFile_close(c)
    \/ \E c \in CursorIds : ZipExtFile_drop(c)

Spec == Init /\ [][Next]_vars

\* ------------------------------------------------- write, then read back
\* the open() calls of a caller that writes an archive and reads it back
RTWriteOpenArgs ==
    {[mode |-> "w", name |-> StrName("a"), pwd |-> None],
     [mode |-> "w", name |-> ZipInfoName("b", ZIP_DEFLATED, Some(9)), pwd |-> None],
     [mode |-> "w", name |-> ZipInfoName("c", ZIP_STORED, None), pwd |-> None]}
RTArchiveDefaults ==
    {[kind |-> "Stored", level |-> None], [kind |-> "Deflated", level |-> Some(9)]}
RTReadOpenArgs ==
    {[mode |-> "r", name |-> StrName(n), pwd |-> None] : n \in {"a", "b", "c"}}

\* a write-mode handle whose caller keeps a journal
InitRT ==
    /\ variant = "Write"
    /\ file = Some(<<>>)
    /\ locked = FALSE
    /\ \E d \in RTArchiveDefaults :
           /\ compression_kind = d.kind
           /\ compression_level = d.level
    /\ disk = None
    /\ ext = [c \in CursorIds |-> Absent]
    /\ waiting = FALSE
    /\ last = NoCall
    /\ journal = [NoJournal EXCEPT !.on = TRUE]

\* ZipFile::new(file, "r") on the path of the archive that was written and finalized:
\* ReadZipFile::new reads the entries ZipWriter::finish left in the file.  The caller
\* reads back what it wrote without a failure.
ZipFile_new_read ==
    /\ ~waiting
    /\ variant = "Write" /\ file = None /\ disk # None
    /\ journal.clean
    /\ \A c \in CursorIds : ext[c] = Absent
    /\ variant' = "Read"
    /\ file' = Some(disk[1])
    /\ compression_kind' = "Stored"
    /\ compression_level' = None
    /\ last' = NoCall
    /\ UNCHANGED <<locked, disk, ext, waiting, journal>>

\* the caller has let go of every cursor it was given
NoCursor == \A c \in CursorIds : ext[c] = Absent

\* the calls of a caller that lets go of each cursor before it opens the next entry
NextRT ==
    \/ \E a \in RTWriteOpenArgs, codec \in WriteCodecOutcomes :
           variant = "Write" /\ NoCursor /\ ZipFile_open(a, codec)
    \/ \E a \in RTReadOpenArgs, codec \in {"ok", "err"} :
           variant = "Read" /\ NoCursor /\ ZipFile_open(a, codec)
    \/ \E fin \in {"ok", "finish_err", "flush_err"} : ZipFile_close(fin)
    \/ ZipFile_new_read
    \/ ZipFile_namelist
    \/ \E c \in CursorIds, io \in {"ok", "err"} : ZipExtFile_read(c, io)
    \/ \E c \in CursorIds, buffer \in Chunks, io \in {"ok", "err"} : ZipExtFile_write(c, buffer, io)
    \/ \E c \in CursorIds : ZipExtFile_close(c)
    \/ \E c \in CursorIds : ZipExtFile_drop(c)

SpecRT == InitRT /\ [][NextRT]_vars

\* =================================================================
\* Properties
\* =================================================================

\* the open() call reached ReadZipFile::open or WriteZipFile::open
ReachesVariantOpen(a) ==
    \/ variant = "Read" /\ a.mode = "r" /\ a.name.ty = "str"
    \/ variant = "Write" /\ a.mode = "w" /\ a.pwd = None

GuardHolders == {c \in CursorIds : HoldsGuard(ext[c])}

\* errors open() returns after it acquired the mutex
PostLockErrors ==
    {"AlreadyClosed", "EntryNotFound", "PasswordRequired", "DecryptionFailed", "BadName",
     "UnknownCompression", "InvalidCompressionLevel", "CodecError"}

\* open() arguments that name a valid entry of the handle
ValidEntryArgs ==
    IF variant = "Read"
    THEN {[mode |-> "r", name |-> StrName("a"), pwd |-> None],
          [mode |-> "r", name |-> StrName("s"), pwd |-> Some("pw")]}
    ELSE {[mode |-> "w", name |-> ZipInfoName("b", ZIP_STORED, None), pwd |-> None],
          [mode |-> "w", name |-> ZipInfoName("b", ZIP_DEFLATED, Some(9)), pwd |-> None]}

\* C1: at most one ZipExtFile object of an archive holds the archive's mutex guard at
\* any instant, and the mutex is held whenever one does.
C1_MutualExclusion ==
    /\ Cardinality(GuardHolders) <= 1
    /\ GuardHolders # {} => locked

\* C1 witness: a second open was attempted on a read archive while a cursor was live
\* and a closed cursor object still existed.
C1_Witness ==
    /\ variant = "Read"
    /\ last.op = "open" /\ last.res = "Busy"
    /\ Cardinality(GuardHolders) = 1
    /\ \E c \in CursorIds : ext[c].kind = "Read" /\ ~ext[c].inner

\* C2: while a cursor holds the guard, an open() that reaches the variant's open
\* returns Busy at once: the call does not park, no cursor is created, and the
\* cursors, the mutex and the slot are left as they were.
C2_SecondOpenIsBusy ==
    [][((GuardHolders # {} /\ last'.op = "open" /\ ReachesVariantOpen(last'.args[1]))
           => (/\ last'.res = "Busy"
               /\ last'.ext = 0
               /\ ~waiting'
               /\ ext' = ext
               /\ locked' = locked
               /\ file' = file))]_vars

\* C2 witness: a write archive answered Busy to an open by ZipInfo while its cursor
\* was live.
C2_Witness ==
    /\ variant = "Write"
    /\ last.op = "open" /\ last.res = "Busy"
    /\ last.args[1].name.ty = "ZipInfo"
    /\ GuardHolders # {}

\* C3: when open() fails after it acquired the mutex, the mutex is free and no cursor
\* holds a guard when the error is returned, so on an archive that is still open the
\* next open() of a valid entry succeeds.
C3_LockReleasedOnError ==
    (last.op = "open" /\ last.res \in PostLockErrors)
        => (/\ ~locked
            /\ GuardHolders = {}
            /\ file # None => \A a \in ValidEntryArgs : ZipFile_open_res(a, "ok") = "Ok")

\* C3 witness: an open() of a missing entry failed on an archive that is still open.
C3_Witness ==
    /\ last.op = "open" /\ last.res = "EntryNotFound"
    /\ file # None

\* C4 (as claimed): with a cursor live, archive close() in either mode, and namelist()
\* where it is available, return Busy without parking and change nothing.
C4_CloseOrListWhileOpenIsBusy ==
    [][((/\ GuardHolders # {}
         /\ \/ last'.op = "close"
            \/ last'.op = "namelist" /\ variant = "Read")
           => (/\ last'.res = "Busy"
               /\ ~waiting'
               /\ file' = file
               /\ ext' = ext
               /\ locked' = locked))]_vars

\* C5 (as claimed): when close() is called on a cursor that holds the guard, the mutex
\* is free once close() has returned.
C5_CursorCloseReleasesLock ==
    [][((last'.op = "ext_close" /\ HoldsGuard(ext[last'.ext])) => ~locked')]_vars

\* C6 (as claimed): no call ever waits on the archive mutex.
C6_NoCallWaitsOnLock == ~waiting

\* C7 (as claimed): on a closed archive every open() that reaches the variant's open
\* and every namelist() returns AlreadyClosed.
C7_ClosedRejectsEveryOperation ==
    [][((/\ file = None
         /\ \/ last'.op = "open" /\ ReachesVariantOpen(last'.args[1])
            \/ last'.op = "namelist")
           => last'.res = "AlreadyClosed")]_vars

\* C7 (amended): on a closed archive every open() that reaches the variant's open, and
\* every namelist() of a read archive, returns AlreadyClosed, creates no cursor and
\* leaves the mutex free and the slot empty; namelist() of a write archive returns
\* UnsupportedMode.
C7_ClosedRejectsVariantOperations ==
    [][((file = None /\ last'.op \in {"open", "namelist"})
           => (/\ (\/ last'.op = "open" /\ ReachesVariantOpen(last'.args[1])
                   \/ last'.op = "namelist" /\ variant = "Read")
                      => last'.res = "AlreadyClosed"
               /\ (last'.op = "namelist" /\ variant = "Write")
                      => last'.res = "UnsupportedMode"
               /\ last'.ext = 0
               /\ ext' = ext
               /\ ~locked /\ ~locked'
               /\ file' = None))]_vars

\* C7 witness: an open() with an argument of the wrong type was answered AlreadyClosed
\* by a closed write archive.
C7_Witness ==
    /\ variant = "Write"
    /\ file = None
    /\ last.op = "open" /\ last.res = "AlreadyClosed"
    /\ last.args[1].name.ty = "other"

\* C8 (as claimed): read() on a read cursor and write() on a write cursor fail with
\* AlreadyClosed once close() was called on the cursor, and change nothing.
C8_ClosedCursorRejectsIO ==
    [][((/\ \/ last'.op = "read" /\ ext[last'.ext].kind = "Read"
            \/ last'.op = "write" /\ ext[last'.ext].kind = "Write"
         /\ ext[last'.ext].closed)
           => (/\ last'.res = "AlreadyClosed"
               /\ file' = file
               /\ disk' = disk))]_vars

\* C9: close() on a cursor that was closed before, and close() on an archive whose
\* slot is already empty, return Ok and leave slot, mutex, cursors and file as they are.
C9_CloseIdempotent ==
    [][((\/ last'.op = "ext_close" /\ ext[last'.ext].closed
         \/ last'.op = "close" /\ file = None)
           => (/\ last'.res = "Ok"
               /\ ~waiting'
               /\ file' = file
               /\ locked' = locked
               /\ ext' = ext
               /\ disk' = disk))]_vars

\* C9 witness: a read cursor was closed a second time while another cursor was live.
C9_Witness ==
    /\ last.op = "ext_close" /\ last.again
    /\ ext[last.ext].kind = "Read"
    /\ GuardHolders # {}

\* the level is out of range for the kind: Deflate outside 0..9, Bzip2 outside 1..9
LevelOutOfRange(zi) ==
    /\ zi.compress_level # None
    /\ \/ zi.compress_type = ZIP_DEFLATED /\ ~(zi.compress_level[1] \in 0..9)
       \/ zi.compress_type = ZIP_BZIP2 /\ ~(zi.compress_level[1] \in 1..9)

\* C10: a write-mode open() returns InvalidCompressionLevel only if the effective
\* descriptor's level is out of range for its kind, and always does so when it is and
\* the call got as far as the descriptor (mutex free, slot present, name a str or a
\* ZipInfo); on that error start_file has not run: no entry, no bytes, no cursor.
C10_InvalidLevelExactly ==
    [][((/\ variant = "Write"
         /\ last'.op = "open"
         /\ ReachesVariantOpen(last'.args[1]))
           => LET a == last'.args[1]
                  bad == LevelOutOfRange(zip_info(a.name))
              IN  /\ last'.res = "InvalidCompressionLevel"
                         => (/\ bad
                             /\ file' = file
                             /\ disk' = disk
                             /\ ext' = ext
                             /\ last'.opts = None
                             /\ ~locked')
                  /\ (bad /\ ~locked /\ file # None /\ a.name.ty # "other")
                         => last'.res = "InvalidCompressionLevel")]_vars

\* C10 witness: an open() by ZipInfo was turned down for its level after an entry had
\* been started in the writer.
C10_Witness ==
    /\ last.op = "open" /\ last.res = "InvalidCompressionLevel"
    /\ last.args[1].name.ty = "ZipInfo"
    /\ file # None /\ Len(file[1]) > 0

\* C11: when close() of a write archive returns a finish or flush error, the slot is
\* empty and the mutex free on return; on the archive so left (closed, nothing
\* finalized) an open() that reaches WriteZipFile::open returns AlreadyClosed and a
\* further close() returns Ok.
C11_FailedCloseLeavesClosed ==
    [][(variant = "Write"
           => (/\ (last'.op = "close" /\ last'.res \in {"CodecError", "IoError"})
                      => (file # None /\ file' = None /\ ~locked' /\ ~waiting')
               /\ (file = None /\ disk = None /\ last'.op = "open"
                       /\ ReachesVariantOpen(last'.args[1]))
                      => (last'.res = "AlreadyClosed" /\ last'.ext = 0 /\ file' = None)
               /\ (file = None /\ disk = None /\ last'.op = "close")
                      => (last'.res = "Ok" /\ file' = None /\ disk' = None /\ ~waiting')))]_vars

\* C11 witness: close() was called again, and returned Ok, on a write archive whose
\* first close() had failed (closed, nothing finalized).
C11_Witness ==
    /\ variant = "Write"
    /\ file = None /\ disk = None
    /\ last.op = "close" /\ last.again /\ last.res = "Ok"

\* the entry of the read archive called n
EntryNamed(n) == CHOOSE e \in {ReadArchive[i] : i \in DOMAIN ReadArchive} : e.name = n

\* C13: on an open read archive with the mutex free, open() of an encrypted entry
\* returns PasswordRequired without a password and DecryptionFailed with a wrong one,
\* creating no cursor either time; with the right password, and for an unencrypted entry
\* with or without a password, it returns a cursor (unless the codec itself fails), and
\* the first read() of a cursor returns the plaintext of the entry it was opened for.
C13_EncryptedEntryPasswords ==
    [][(variant = "Read"
           => (/\ (/\ last'.op = "open"
                   /\ ReachesVariantOpen(last'.args[1])
                   /\ ~locked /\ file # None
                   /\ last'.args[1].name.filename \in {"a", "s"})
                      => LET a == last'.args[1]
                             e == EntryNamed(a.name.filename)
                         IN  /\ (e.encrypted /\ a.pwd = None)
                                    => last'.res \in {"PasswordRequired", "CodecError"}
                             /\ (e.encrypted /\ a.pwd # None /\ a.pwd # Some(e.password))
                                    => last'.res \in {"DecryptionFailed", "CodecError"}
                             /\ (~e.encrypted \/ a.pwd = Some(e.password))
                                    => last'.res \in {"Ok", "CodecError"}
                             /\ last'.res # "Ok"
                                    => (last'.ext = 0 /\ ext' = ext /\ ~locked')
                             /\ last'.res = "Ok"
                                    => (/\ last'.ext # 0
                                        /\ HoldsGuard(ext'[last'.ext])
                                        /\ ext'[last'.ext].pos = 0
                                        /\ ReadArchive[ext'[last'.ext].entry] = e)
               /\ (/\ last'.op = "read" /\ last'.res = "Ok"
                   /\ ext[last'.ext].pos = 0)
                      => last'.data = ReadArchive[ext[last'.ext].entry].data))]_vars

\* C13 witness: the encrypted entry was opened with its password and read in full.
C13_Witness ==
    /\ variant = "Read"
    /\ last.op = "read" /\ last.res = "Ok"
    /\ ReadArchive[ext[last.ext].entry].encrypted
    /\ last.data = <<3>>

\* the call is one the handle's or cursor's variant does not offer
InvalidForVariant(op, a, c) ==
    \/ op = "open" /\ variant = "Read" /\ a[1].mode = "w"
    \/ op = "open" /\ variant = "Write" /\ a[1].mode = "r"
    \/ op = "open" /\ variant = "Write" /\ a[1].mode = "w" /\ a[1].pwd # None
    \/ op = "namelist" /\ variant = "Write"
    \/ op = "read" /\ ext[c].kind = "Write"
    \/ op = "write" /\ ext[c].kind = "Read"

\* C14: a call that is invalid for the variant (open with mode "w" on a read archive,
\* with mode "r" or with a password on a write archive, namelist on a write archive,
\* read on a write cursor, write on a read cursor) returns UnsupportedMode, does not
\* park, and leaves mutex, slot, file and cursors as they were.
C14_InvalidForVariantIsUnsupported ==
    [][(InvalidForVariant(last'.op, last'.args, last'.ext)
           => (/\ last'.res = "UnsupportedMode"
               /\ ~waiting'
               /\ locked' = locked
               /\ file' = file
               /\ disk' = disk
               /\ ext' = ext))]_vars

\* C14 witness: write() was called on a read cursor that holds the guard.
C14_Witness ==
    /\ last.op = "write" /\ last.res = "UnsupportedMode"
    /\ ext[last.ext].kind = "Read"
    /\ HoldsGuard(ext[last.ext])

\* the kinds whose level WriteZipFile::open hands to the codec
LevelledKinds == {"Deflated", "Bzip2"}

\* C16 (as claimed): in a write-mode open() that gets as far as start_file, kind and
\* level are each the value set on the ZipInfo, and the archive-wide value where the
\* ZipInfo sets none (a ZipInfo always carries a kind; its level may be unset); a plain
\* name uses the archive-wide kind and level.
C16_PerFieldPrecedence ==
    [][((variant = "Write" /\ last'.op = "open" /\ last'.opts # None)
           => LET n == last'.args[1].name
                  o == last'.opts[1]
              IN  /\ n.ty = "str"
                         => (/\ o.method = compression_kind
                             /\ o.method \in LevelledKinds => o.level = compression_level)
                  /\ n.ty = "ZipInfo"
                         => (/\ o.method = CompressionKind_try_from(n.compress_type)
                             /\ o.method \in LevelledKinds
                                    => o.level = IF n.compress_level # None
                                                 THEN n.compress_level
                                                 ELSE compression_level))]_vars

\* C16 (amended): in a write-mode open() that gets as far as start_file, a ZipInfo's
\* kind and level are used as they are, an unset level staying unset whatever the
\* archive-wide level is; a plain name uses the archive-wide kind and level; the
\* level reaches the codec for Deflate and Bzip2 only.
C16_DescriptorTakenWhole ==
    [][((variant = "Write" /\ last'.op = "open" /\ last'.opts # None)
           => LET n == last'.args[1].name
                  o == last'.opts[1]
              IN  /\ n.ty \in {"str", "ZipInfo"}
                  /\ n.ty = "str"
                         => (/\ o.method = compression_kind
                             /\ o.method \in LevelledKinds => o.level = compression_level)
                  /\ n.ty = "ZipInfo"
                         => (/\ o.method = CompressionKind_try_from(n.compress_type)
                             /\ o.method \in LevelledKinds => o.level = n.compress_level)
                  /\ o.method \notin LevelledKinds => o.level = None)]_vars

\* C16 witness: on an archive whose archive-wide level is set, an entry was started
\* from a Deflate ZipInfo that sets no level, and no level was handed to the codec.
C16_Witness ==
    /\ variant = "Write"
    /\ compression_level # None
    /\ last.op = "open" /\ last.res = "Ok"
    /\ last.args[1].name = ZipInfoName("b", ZIP_DEFLATED, None)
    /\ last.opts = Some([method |-> "Deflated", level |-> None])

\* C17: a read() that succeeds on an open read cursor returns the whole entry when it
\* is the first on a freshly opened cursor and an empty buffer once the entry has been
\* drained, leaves the cursor at the end of the entry, and neither closes the cursor
\* nor releases the mutex.
C17_ReadAllDrains ==
    [][((/\ last'.op = "read" /\ last'.res = "Ok"
         /\ ext[last'.ext].kind = "Read")
           => LET c == last'.ext
                  e == file[1][ext[c].entry]
              IN  /\ ext[c].inner /\ locked
                  /\ ext[c].pos = 0 => last'.data = e.data
                  /\ ext[c].pos = Len(e.data) => last'.data = <<>>
                  /\ ext'[c] = [ext[c] EXCEPT !.pos = Len(e.data)]
                  /\ HoldsGuard(ext'[c]) /\ locked'
                  /\ file' = file)]_vars

\* C17 witness: a second read() on a still open cursor returned an empty buffer.
C17_Witness ==
    /\ last.op = "read" /\ last.res = "Ok"
    /\ last.data = <<>>
    /\ ext[last.ext].kind = "Read" /\ ext[last.ext].inner /\ ~ext[last.ext].closed
    /\ ext[last.ext].pos > 0
    /\ locked

\* C18: in every reachable state a cursor that holds the archive's guard implies the
\* archive's slot is present; a close() that cleared the slot left no guard holder, and
\* a read or write through a guard-holding cursor never reports a closed archive.
C18_LiveCursorImpliesOpen ==
    /\ GuardHolders # {} => file # None /\ locked
    /\ (last.op = "close" /\ last.res = "Ok") => GuardHolders = {}
    /\ (last.op \in {"read", "write"} /\ HoldsGuard(ext[last.ext]))
           => last.res # "AlreadyClosed"

\* C18 witness: close() was refused while a cursor held the guard, the slot is kept.
C18_Witness ==
    /\ last.op = "close" /\ last.res = "Busy"
    /\ GuardHolders # {}
    /\ file # None

\* the archive-wide level the handle was built with is out of range for its kind
ArchiveLevelOutOfRange ==
    LevelOutOfRange([compress_type |-> u8_from(compression_kind),
                     compress_level |-> compression_level])

\* ZipInfo arguments whose kind is known and whose level is in range for it
ValidZipInfo(name) ==
    /\ name.ty = "ZipInfo"
    /\ name.compress_type \in {ZIP_STORED, ZIP_DEFLATED, ZIP_BZIP2, ZIP_LZMA}
    /\ ~LevelOutOfRange(name)

\* C19: on a write archive built with a level out of range for its kind (building it
\* succeeded: the slot is present), every open() by plain name that finds the mutex
\* free fails with InvalidCompressionLevel and leaves the slot, the mutex and the
\* cursors as they were, while an open() with a ZipInfo of valid kind and level is
\* not refused for its level: it succeeds and hands out a cursor unless the codec's
\* start_file fails.
C19_ArchiveLevelCheckedAtOpen ==
    [][((/\ variant = "Write"
         /\ ArchiveLevelOutOfRange
         /\ last'.op = "open"
         /\ ReachesVariantOpen(last'.args[1])
         /\ ~locked /\ file # None)
           => LET name == last'.args[1].name IN
              /\ name.ty = "str"
                    => /\ last'.res = "InvalidCompressionLevel"
                       /\ file' = file /\ ~locked' /\ ext' = ext /\ ~waiting'
              /\ ValidZipInfo(name)
                    => /\ last'.res \in {"Ok", "CodecError"}
                       /\ last'.res = "Ok"
                             => /\ HoldsGuard(ext'[last'.ext]) /\ locked'
                                /\ Len(file'[1]) = Len(file[1]) + 1
                                /\ file'[1][Len(file'[1])].name = name.filename)]_vars

\* C19 witness: on an archive whose own level is out of range, a plain-name open was
\* refused for the level and the archive is still open and unlocked with an entry
\* that an earlier ZipInfo open created.
C19_Witness ==
    /\ variant = "Write" /\ ArchiveLevelOutOfRange
    /\ last.op = "open" /\ last.res = "InvalidCompressionLevel"
    /\ last.args[1].name.ty = "str"
    /\ file # None /\ ~locked
    /\ Len(file[1]) >= 1

\* the read cursor c has a live view into its entry (inner is Some)
HasView(x) == x.kind = "Read" /\ x.inner

\* in the order of drops d no file is dropped after the lock
ViewBeforeLock(d) ==
    \A i, j \in DOMAIN d : (d[i] = "file" /\ d[j] = "lock") => i < j

\* C15: a read cursor with a live view is the holder of the archive's mutex in every
\* state; a call that ends the view of a cursor (close, destruction) drops the view
\* and then the guard, leaving the mutex free; an open whose construction fails drops
\* the guard with no view left behind and creates no cursor; no call drops a view
\* after the guard.
C15_ViewNeverOutlivesLock ==
    [][/\ \A c \in CursorIds : HasView(ext[c]) => locked /\ GuardHolders = {c}
       /\ \A c \in CursorIds : HasView(ext'[c]) => locked' /\ HoldsGuard(ext'[c])
       /\ ViewBeforeLock(last'.dropped)
       /\ \A c \in CursorIds :
              (HasView(ext[c]) /\ ~HasView(ext'[c]))
                  => /\ last'.op \in {"ext_close", "drop"} /\ last'.ext = c
                     /\ last'.dropped = <<"file", "lock">>
                     /\ ~locked'
       /\ (variant = "Read" /\ last'.op = "open" /\ ~(last'.res \in {"Ok", "Busy"})
           /\ last'.args[1].mode = "r" /\ last'.args[1].name.ty = "str")
              => /\ last'.dropped = <<"lock">>
                 /\ ~locked' /\ ext' = ext]_vars

\* C15 witness: close() of a read cursor dropped its view, then its guard.
C15_Witness ==
    /\ last.op = "ext_close"
    /\ ext[last.ext].kind = "Read" /\ ~ext[last.ext].inner
    /\ last.dropped = <<"file", "lock">>
    /\ ~locked

\* the names of the entries the caller opened for writing, in the order of the opens
JournalNames == [i \in DOMAIN journal.ents |-> journal.ents[i].name]

\* the caller opened no name twice
DistinctNames ==
    \A i, j \in DOMAIN journal.ents :
        journal.ents[i].name = journal.ents[j].name => i = j

\* the archive the caller wrote without a failed write, with one entry per name, and
\* finalized is open for reading
ReadBack == variant = "Read" /\ journal.on /\ journal.clean /\ DistinctNames

====
